---- MODULE Spec2Model ----
(***************************************************************************)
(* The transcription endpoint of asr-project: POST /api/transcribe         *)
(* (src/app/api/transcribe/route.ts) with its retry helper, the regex      *)
(* extraction and JSON decoding of the model's reply, and the scratch file *)
(* the handler writes and deletes; and the page that calls it              *)
(* (src/app/page.tsx): file selection, handleTranscribe, handleDownload.   *)
(*                                                                         *)
(* Texts (error messages, file names, model replies) are sequences of      *)
(* chunks.  A chunk is either a single character that the code looks at    *)
(* ("4", "2", "9", "[", "{", ...) or a piece of text that holds none of    *)
(* those characters.                                                       *)
(***************************************************************************)
EXTENDS Integers, Sequences, FiniteSets, TLC

\* ------------------------------------------------------------------ bounds

\* Largest number of objects in a generated reply array.
MaxEntries == 2

\* Largest maxRetries argument of a direct call of retryWithBackoff.
MaxRetriesArg == 4

\* Largest number of requests the network carries for one page at a time.
MaxInFlight == 2

\* ------------------------------------------------------- program constants

\* maxRetries = 3 (default argument)
DefaultMaxRetries == 3

\* initialDelay = 1000 (default argument)
DefaultInitialDelay == 1000

Requests == {"r1", "r2"}

UUIDs == {"u1", "u2"}

\* file.name of the uploads: a plain name, and a name holding path separators
\* (each element is one path segment).
FileNames == {<<"a.mp4">>, <<"x", "..", "a.mp4">>}

\* ---------------------------------------------------------------- messages

Marker429 == <<"4", "2", "9">>

\* String.prototype.includes
Includes(s, t) ==
    \E i \in 1..(Len(s) - Len(t) + 1) : SubSeq(s, i, i + Len(t) - 1) = t

\* A thrown value: an Error with its message, or a value that is no Error
\* (message is then what its .message holds, if anything).
Err(m) == [isError |-> TRUE, message |-> m]

NonErr(m) == [isError |-> FALSE, message |-> m]

NoError == [isError |-> FALSE, message |-> <<"(none)">>]

RateLimitErrors ==
    { Err(Marker429),
      Err(<<"[GoogleGenerativeAI Error]: [", "4", "2", "9", " Too Many Requests]">>) }

OtherErrors ==
    { Err(<<"5", "0", "3", " Service Unavailable">>),
      Err(<<"4", "2", " ", "9">>),
      Err(<< >>),
      NonErr(Marker429) }

FnErrors == RateLimitErrors \cup OtherErrors

MsgNoVideo == <<"No video file provided">>

MsgParse == <<"Failed to parse transcription response">>

MsgProcess == <<"Failed to process video">>

\* ------------------------------------------------------------ scratch path

Seg(pre, s) == [pre |-> pre, s |-> s]

RECURSIVE Normalize(_, _)
\* path.normalize on a sequence of segments: "." is dropped, ".." removes the
\* segment before it.
Normalize(segs, acc) ==
    IF segs = << >> THEN acc
    ELSE LET h == Head(segs) IN
         IF h = Seg("", ".") THEN Normalize(Tail(segs), acc)
         ELSE IF h = Seg("", "..") /\ acc # << >> /\ acc[Len(acc)] # Seg("", "..")
              THEN Normalize(Tail(segs), SubSeq(acc, 1, Len(acc) - 1))
              ELSE Normalize(Tail(segs), Append(acc, h))

\* `${uuidv4()}-${file.name}`: the uuid prefixes the first segment of the name.
ScratchName(u, name) ==
    <<Seg(u, Head(name))>> \o [i \in 1..(Len(name) - 1) |-> Seg("", name[i + 1])]

\* join(uploadDir, filename)
ScratchPath(u, name) == Normalize(<<Seg("", "tmp")>> \o ScratchName(u, name), << >>)

\* The directory a path lies in.
DirOf(path) == SubSeq(path, 1, Len(path) - 1)

UploadDir == <<Seg("", "tmp")>>

NoPath == << >>

\* -------------------------------------------------------------- JSON values

NoFields == [k \in {} |-> k]

JStr(s) == [kind |-> "string", str |-> s, fields |-> NoFields, items |-> << >>]

JObj(f) == [kind |-> "object", str |-> << >>, fields |-> f, items |-> << >>]

JArr(xs) == [kind |-> "array", str |-> << >>, fields |-> NoFields, items |-> xs]

JNull == [kind |-> "null", str |-> << >>, fields |-> NoFields, items |-> << >>]

\* The member chunks a reply may hold: each is the text of one "key":"string".
KvDialogue == "\"dialogue\":\"hi\""

KvDialogue2 == "\"dialogue\":\"yo\""

KvFilename == "\"filename\":\"model.mp4\""

MemberChunks == {KvDialogue, KvDialogue2, KvFilename}

MemberKey(c) == IF c = KvFilename THEN "filename" ELSE "dialogue"

MemberVal(c) ==
    IF c = KvFilename THEN JStr(<<"model.mp4">>)
    ELSE IF c = KvDialogue THEN JStr(<<"hi">>)
    ELSE JStr(<<"yo">>)

Prose == "Here is the transcript"

IsWs(c) == c = " "

RECURSIVE SkipWs(_, _)
\* The first position at or after i that holds no whitespace (Len(t) + 1 if none).
SkipWs(t, i) ==
    IF i <= Len(t) /\ IsWs(t[i]) THEN SkipWs(t, i + 1) ELSE i

At(t, i, c) == i <= Len(t) /\ t[i] = c

ParseFail == [ok |-> FALSE, next |-> 0, val |-> JNull]

ParseOk(n, v) == [ok |-> TRUE, next |-> n, val |-> v]

RECURSIVE ParseValue(_, _)
RECURSIVE ParseMembers(_, _, _)
RECURSIVE ParseElems(_, _, _)

\* members of an object from position i on; a later duplicate key wins.
ParseMembers(t, i, acc) ==
    IF ~(i <= Len(t) /\ t[i] \in MemberChunks) THEN ParseFail
    ELSE LET acc2 == (MemberKey(t[i]) :> MemberVal(t[i])) @@ acc
             j == SkipWs(t, i + 1)
         IN  IF At(t, j, ",") THEN ParseMembers(t, SkipWs(t, j + 1), acc2)
             ELSE IF At(t, j, "}") THEN ParseOk(j + 1, JObj(acc2))
             ELSE ParseFail

\* elements of an array from position i on.
ParseElems(t, i, acc) ==
    LET v == ParseValue(t, i) IN
    IF ~v.ok THEN ParseFail
    ELSE LET acc2 == Append(acc, v.val)
             j == SkipWs(t, v.next)
         IN  IF At(t, j, ",") THEN ParseElems(t, SkipWs(t, j + 1), acc2)
             ELSE IF At(t, j, "]") THEN ParseOk(j + 1, JArr(acc2))
             ELSE ParseFail

\* one JSON value starting at position i.
ParseValue(t, i) ==
    IF At(t, i, "{")
    THEN LET j == SkipWs(t, i + 1) IN
         IF At(t, j, "}") THEN ParseOk(j + 1, JObj(NoFields))
         ELSE ParseMembers(t, j, NoFields)
    ELSE IF At(t, i, "[")
    THEN LET j == SkipWs(t, i + 1) IN
         IF At(t, j, "]") THEN ParseOk(j + 1, JArr(<< >>))
         ELSE ParseElems(t, j, << >>)
    ELSE ParseFail

\* JSON.parse: the whole text is one value, whitespace around it allowed.
JsonParse(t) ==
    LET v == ParseValue(t, SkipWs(t, 1)) IN
    IF v.ok /\ SkipWs(t, v.next) = Len(t) + 1 THEN v ELSE ParseFail

\* The positions where a match of /\[\s*\{[\s\S]*\}\s*\]/ that starts at i can end.
MatchEnds(t, i) ==
    IF ~At(t, i, "[") THEN {}
    ELSE LET j == SkipWs(t, i + 1) IN
         IF ~At(t, j, "{") THEN {}
         ELSE { l \in (j + 1)..Len(t) :
                  /\ t[l] = "]"
                  /\ \E k \in (j + 1)..(l - 1) :
                        /\ t[k] = "}"
                        /\ \A m \in (k + 1)..(l - 1) : IsWs(t[m]) }

SetMax(S) == CHOOSE x \in S : \A y \in S : y <= x

SetMin(S) == CHOOSE x \in S : \A y \in S : x <= y

NoMatch == [found |-> FALSE, text |-> << >>]

\* text.match(/\[\s*\{[\s\S]*\}\s*\]/): the leftmost start that matches, and from
\* it the longest match ([\s\S]* is greedy).
JsonMatch(t) ==
    LET starts == { i \in 1..Len(t) : MatchEnds(t, i) # {} } IN
    IF starts = {} THEN NoMatch
    ELSE LET i == SetMin(starts) IN
         [found |-> TRUE, text |-> SubSeq(t, i, SetMax(MatchEnds(t, i)))]

IndexKey(i) == CASE i = 1 -> "0" [] i = 2 -> "1" [] i = 3 -> "2" [] OTHER -> "3+"

\* {...entry}: the own enumerable properties of a decoded value.
Spread(v) ==
    IF v.kind = "object" THEN v.fields
    ELSE IF v.kind = "array"
    THEN [k \in { IndexKey(i) : i \in 1..Len(v.items) } |->
            v.items[CHOOSE i \in 1..Len(v.items) : IndexKey(i) = k]]
    ELSE NoFields

\* Variant: ({filename: file.name, ...entry}), the entry's own filename wins.
OverlayUnder(entry, name) == JObj(Spread(entry) @@ ("filename" :> JStr(name)))

\* entry => ({...entry, filename: file.name})
Overlay(entry, name) == JObj(("filename" :> JStr(name)) @@ Spread(entry))

\* timeline.map(...)
OverlayAll(items, name) == [i \in 1..Len(items) |-> Overlay(items[i], name)]

\* ------------------------------------------------------ the model's replies

ObjectTexts ==
    { <<"{", "}">>,
      <<"{", KvDialogue, "}">>,
      <<"{", KvDialogue, ",", KvFilename, "}">>,
      <<"{", KvDialogue, ",", KvDialogue2, "}">> }

RECURSIVE ObjectLists(_)
\* The texts of n objects separated by commas (n >= 1).
ObjectLists(n) ==
    IF n = 1 THEN ObjectTexts
    ELSE { l \o <<",">> \o o : l \in ObjectLists(n - 1), o \in ObjectTexts }

\* Well-formed JSON arrays of 1..MaxEntries objects.
ArrayTexts ==
    UNION { { <<"[">> \o l \o <<"]">> : l \in ObjectLists(n) } : n \in 1..MaxEntries }

\* What the model writes before and after the array: <<lead, trail>>.
Wrappers ==
    { << << >>, << >> >>,
      << <<Prose, " ">>, <<" ", Prose>> >>,
      << << >>, <<Prose, "}", "]">> >>,
      << <<Prose>>, <<Prose, "[", "{", KvDialogue2, "}", "]">> >> }

\* Replies of other shapes: no array, malformed arrays, whitespace, nesting.
OddReplies ==
    { << >>,
      <<Prose>>,
      <<"[", "]">>,
      <<"{", KvDialogue, "}">>,
      <<"[", "{", KvDialogue, "]">>,
      <<"[", "{", Prose, "}", "]">>,
      <<"[", "{", KvDialogue, "}", "{", "}", "]">>,
      <<"[", "{", KvDialogue, ",", "}", "]">>,
      <<"[", "{", KvDialogue, "}", ",", "]">>,
      <<"[", "{", KvFilename, "}", "]">>,
      <<"[", " ", "{", " ", KvDialogue, " ", "}", " ", "]">>,
      <<"[", "{", "}", ",", "[", "]", ",", "{", "}", "]">>,
      <<"[", "[", "{", KvDialogue, "}", "]", "]">> }

Replies == { w[1] \o a \o w[2] : w \in Wrappers, a \in ArrayTexts } \cup OddReplies

\* What generateContent resolves to: a reply text, or a response whose text()
\* throws (the response was blocked).
Result(t) == [blocked |-> FALSE, text |-> t]

BlockedResult == [blocked |-> TRUE, text |-> << >>]

NoResult == [blocked |-> FALSE, text |-> <<"(none)">>]

FnResults == { Result(t) : t \in Replies } \cup {BlockedResult}

\* Results of a direct call of retryWithBackoff (their content plays no part).
RetryResults == { Result(<<Prose>>), Result(<< >>) }

ErrBlocked == Err(<<"Text not available. Response was blocked">>)

\* One invocation of fn: it resolved with a result or rejected with a value.
Resolved(res) == [ok |-> TRUE, result |-> res, error |-> NoError]

Rejected(e) == [ok |-> FALSE, result |-> NoResult, error |-> e]

Outcomes(results) == { Resolved(x) : x \in results } \cup { Rejected(e) : e \in FnErrors }

\* ------------------------------------------------------------- the request

\* formData.get('video'): a File, a text field, or null; or formData() rejects.
FormFile(n) == [kind |-> "file", name |-> n]

FormText(s) == [kind |-> "text", name |-> s]

FormAbsent == [kind |-> "absent", name |-> << >>]

FormUndecodable == [kind |-> "undecodable", name |-> << >>]

NoForm == [kind |-> "none", name |-> << >>]

Forms ==
    { FormFile(n) : n \in FileNames }
        \cup { FormText(<< >>), FormText(<<"clip">>), FormAbsent, FormUndecodable }

\* Variant: file === undefined (a missing field reads as null).
FalsyUndefinedOnly(v) == v.kind = "undefined"

\* !file
Falsy(v) == v.kind = "absent" \/ (v.kind = "text" /\ v.name = << >>)

\* ------------------------------------------------------------ the response

NoResponse == [status |-> 0, kind |-> "none", error |-> << >>, entries |-> << >>]

ErrorResponse(st, m) == [status |-> st, kind |-> "error", error |-> m, entries |-> << >>]

EntriesResponse(es) == [status |-> 200, kind |-> "entries", error |-> << >>, entries |-> es]

\* Variant: the catch always answers with the fixed text.
CatchMessageGeneric(e) == MsgProcess

\* error instanceof Error ? error.message : 'Failed to process video'
CatchMessage(e) == IF e.isError THEN e.message ELSE MsgProcess

Pending == [kind |-> "pending", result |-> NoResult, error |-> NoError]

Returned(res) == [kind |-> "returned", result |-> res, error |-> NoError]

Thrown(e) == [kind |-> "thrown", result |-> NoResult, error |-> e]

\* ------------------------------------------------ the page (src/app/page.tsx)

\* useState<File | null>(null)
NoFile == << >>

\* useState<string | null>(null)
NoErrorText == << >>

\* What a fetch settled with: a response, or a rejection (no response at all).
NoOutcome == [kind |-> "none", response |-> NoResponse, error |-> NoError]

Fulfilled(resp) == [kind |-> "response", response |-> resp, error |-> NoError]

Refused(e) == [kind |-> "rejected", response |-> NoResponse, error |-> e]

\* Nothing has been exported.
NoDownload == [filename |-> << >>, entries |-> << >>]

\* --------------------------------------------------------------- the state

VARIABLES
    pc,            \* where each request's handler stands
    video,         \* the decoded form's video field
    filePath,      \* the scratch path of the request (line 67)
    retries,       \* retryWithBackoff: retries
    maxRetries,    \* retryWithBackoff: argument
    initialDelay,  \* retryWithBackoff: argument
    outcomes,      \* every invocation of fn so far, in order
    waits,         \* every completed wait(delay) so far, in order
    settled,       \* what retryWithBackoff returned or threw
    timeline,      \* the parsed entries
    response,      \* the response returned
    disk,          \* the files that exist
    tmpDir,        \* whether the upload directory exists
    file,          \* page: the selected file's name
    isLoading,     \* page: isLoading
    uiTimeline,    \* page: timeline
    error,         \* page: error
    fetches,       \* page: the requests sent and not yet settled
    fetched,       \* page: what the last settled fetch gave (res, or the rejection)
    download       \* page: the last file handed to the browser by handleDownload

serverVars ==
    <<pc, video, filePath, retries, maxRetries, initialDelay, outcomes, waits,
      settled, timeline, response, disk, tmpDir>>

clientVars == <<file, isLoading, uiTimeline, error, fetches, fetched, download>>

vars == <<serverVars, clientVars>>

retryVars == <<retries, maxRetries, initialDelay, outcomes, waits, settled>>

Start(active, at) ==
    /\ pc = [r \in Requests |-> IF r \in active THEN at ELSE "none"]
    /\ video = [r \in Requests |-> NoForm]
    /\ filePath = [r \in Requests |-> NoPath]
    /\ retries = [r \in Requests |-> 0]
    /\ outcomes = [r \in Requests |-> << >>]
    /\ waits = [r \in Requests |-> << >>]
    /\ settled = [r \in Requests |-> Pending]
    /\ timeline = [r \in Requests |-> << >>]
    /\ response = [r \in Requests |-> NoResponse]
    /\ disk = {}
    /\ tmpDir = FALSE
    /\ file = NoFile
    /\ isLoading = FALSE
    /\ uiTimeline = << >>
    /\ error = NoErrorText
    /\ fetches = << >>
    /\ fetched = NoOutcome
    /\ download = NoDownload

\* One request arrives at the endpoint.
Init ==
    /\ Start({"r1"}, "received")
    /\ maxRetries = [r \in Requests |-> DefaultMaxRetries]
    /\ initialDelay = [r \in Requests |-> DefaultInitialDelay]

\* return NextResponse.json(...)
Respond(r, resp) ==
    /\ response' = [response EXCEPT ![r] = resp]
    /\ pc' = [pc EXCEPT ![r] = "responded"]

\* Variant: no catch around the handler, the failure leaves POST.
Uncaught(r, e) ==
    /\ pc' = [pc EXCEPT ![r] = "uncaught"]
    /\ UNCHANGED response

\* catch (error) of POST, lines 164-169
Caught(r, e) == Respond(r, ErrorResponse(500, CatchMessage(e)))

\* lines 46-54
Receive(r) ==
    /\ pc[r] = "received"
    /\ UNCHANGED clientVars
    /\ \E f \in Forms :
          /\ video' = [video EXCEPT ![r] = f]
          /\ IF f.kind = "undecodable"
             THEN Caught(r, Err(<<"Failed to parse body as FormData.">>))
             ELSE IF Falsy(f)
             THEN Respond(r, ErrorResponse(400, MsgNoVideo))
             ELSE /\ pc' = [pc EXCEPT ![r] = "persist"]
                  /\ UNCHANGED response
    /\ UNCHANGED <<filePath, retryVars, timeline, disk, tmpDir>>

\* lines 57-68, with uuidv4() drawing from ids
PersistWith(r, ids) ==
    /\ pc[r] = "persist"
    /\ UNCHANGED clientVars
    /\ UNCHANGED <<video, retryVars, timeline>>
    /\ IF video[r].kind # "file"
       THEN \* file.arrayBuffer is undefined on a string
            /\ Caught(r, Err(<<"file.arrayBuffer is not a function">>))
            /\ UNCHANGED <<filePath, disk, tmpDir>>
       ELSE \E u \in ids :
            LET path == ScratchPath(u, video[r].name) IN
            \/ \* mkdir rejects
               /\ ~tmpDir
               /\ Caught(r, Err(<<"EACCES: permission denied, mkdir">>))
               /\ UNCHANGED <<filePath, disk, tmpDir>>
            \/ \* writeFile rejects: the directory of the path does not exist
               /\ DirOf(path) # UploadDir
               /\ tmpDir' = TRUE
               /\ filePath' = [filePath EXCEPT ![r] = path]
               /\ Caught(r, Err(<<"ENOENT: no such file or directory, open">>))
               /\ UNCHANGED disk
            \/ \* writeFile rejects for another reason; the file may have been created
               /\ DirOf(path) = UploadDir
               /\ tmpDir' = TRUE
               /\ filePath' = [filePath EXCEPT ![r] = path]
               /\ Caught(r, Err(<<"ENOSPC: no space left on device, write">>))
               /\ \E created \in BOOLEAN :
                     disk' = IF created THEN disk \cup {path} ELSE disk
            \/ \* written; retryWithBackoff is called with its default arguments
               /\ DirOf(path) = UploadDir
               /\ tmpDir' = TRUE
               /\ filePath' = [filePath EXCEPT ![r] = path]
               /\ disk' = disk \cup {path}
               /\ pc' = [pc EXCEPT ![r] = "call"]
               /\ UNCHANGED response

\* lines 57-68
Persist(r) == PersistWith(r, UUIDs)

\* Variant: linear backoff.
DelayLinear(initial, n) == initial * (n + 1)

\* line 36
Delay(initial, n) == initial * 2 ^ n

\* Variant: the bound counts attempts, not retries.
GivesUpAtMaxAttempts(n, max, e) ==
    n + 1 >= max \/ ~e.isError \/ ~Includes(e.message, Marker429)

\* Variant: every failure is retried while retries remain.
GivesUpWhenExhausted(n, max, e) == n >= max

\* Variant: the marker test lost its negation.
GivesUpOnRateLimit(n, max, e) ==
    n >= max \/ ~e.isError \/ Includes(e.message, Marker429)

\* line 33: the failure is thrown on instead of retried
GivesUp(n, max, e) == n >= max \/ ~e.isError \/ ~Includes(e.message, Marker429)

\* lines 30-37: one invocation of fn and what the loop does with its outcome
Invoke(r, o) ==
    /\ pc[r] = "call"
    /\ UNCHANGED clientVars
    /\ outcomes' = [outcomes EXCEPT ![r] = Append(@, o)]
    /\ IF o.ok
       THEN /\ settled' = [settled EXCEPT ![r] = Returned(o.result)]
            /\ pc' = [pc EXCEPT ![r] = "returned"]
       ELSE IF GivesUp(retries[r], maxRetries[r], o.error)
       THEN /\ settled' = [settled EXCEPT ![r] = Thrown(o.error)]
            /\ pc' = [pc EXCEPT ![r] = "thrown"]
       ELSE /\ pc' = [pc EXCEPT ![r] = "wait"]
            /\ UNCHANGED settled
    /\ UNCHANGED <<video, filePath, retries, maxRetries, initialDelay, waits,
                   timeline, response, disk, tmpDir>>

\* lines 38-39: the wait is over
WaitDone(r) ==
    /\ pc[r] = "wait"
    /\ UNCHANGED clientVars
    /\ waits' = [waits EXCEPT ![r] = Append(@, Delay(initialDelay[r], retries[r]))]
    /\ retries' = [retries EXCEPT ![r] = @ + 1]
    /\ pc' = [pc EXCEPT ![r] = "call"]
    /\ UNCHANGED <<video, filePath, maxRetries, initialDelay, outcomes, settled,
                   timeline, response, disk, tmpDir>>

\* line 117 rejects: the failure reaches the catch of POST
UpstreamFailed(r) ==
    /\ pc[r] = "thrown"
    /\ UNCHANGED clientVars
    /\ Caught(r, settled[r].error)
    /\ UNCHANGED <<video, filePath, retryVars, timeline, disk, tmpDir>>

\* Variant: without a match the timeline stays [] and nothing is thrown.
DecodeOrEmpty(t) ==
    LET m == JsonMatch(t) IN
    IF m.found THEN JsonParse(m.text) ELSE ParseOk(0, JArr(<< >>))

\* What lines 134-141 decode from a reply text.
DecodeText(t) ==
    LET m == JsonMatch(t) IN IF m.found THEN JsonParse(m.text) ELSE ParseFail

\* DecodeText of every reply, computed once.
Decoded == [t \in Replies |-> DecodeText(t)]

Decode(t) == Decoded[t]

\* lines 129-154
Parse(r) ==
    /\ pc[r] = "returned"
    /\ UNCHANGED clientVars
    /\ UNCHANGED <<video, filePath, retryVars, disk, tmpDir>>
    /\ LET res == settled[r].result IN
       IF res.blocked
       THEN /\ Caught(r, ErrBlocked)
            /\ UNCHANGED timeline
       ELSE LET d == Decode(res.text) IN
            IF d.ok
            THEN /\ timeline' = [timeline EXCEPT ![r] = OverlayAll(d.val.items, video[r].name)]
                 /\ pc' = [pc EXCEPT ![r] = "cleanup"]
                 /\ UNCHANGED response
            ELSE /\ Respond(r, ErrorResponse(500, MsgParse))
                 /\ UNCHANGED timeline

\* Variant: a rejected unlink reaches the catch of POST.
CleanupSurfaced(r) ==
    /\ pc[r] = "cleanup"
    /\ UNCHANGED clientVars
    /\ \/ /\ filePath[r] \in disk
          /\ disk' = disk \ {filePath[r]}
          /\ Respond(r, EntriesResponse(timeline[r]))
       \/ /\ UNCHANGED disk
          /\ Caught(r, Err(<<"EBUSY: resource busy or locked, unlink">>))
    /\ UNCHANGED <<video, filePath, retryVars, timeline, tmpDir>>

\* lines 157-163
Cleanup(r) ==
    /\ pc[r] = "cleanup"
    /\ UNCHANGED clientVars
    /\ \/ /\ filePath[r] \in disk
          /\ disk' = disk \ {filePath[r]}
       \/ \* unlink rejects: logged, nothing else
          UNCHANGED disk
    /\ Respond(r, EntriesResponse(timeline[r]))
    /\ UNCHANGED <<video, filePath, retryVars, timeline, tmpDir>>

Next ==
    \E r \in Requests :
        \/ Receive(r)
        \/ Persist(r)
        \/ \E o \in Outcomes(FnResults) : Invoke(r, o)
        \/ WaitDone(r)
        \/ UpstreamFailed(r)
        \/ Parse(r)
        \/ Cleanup(r)

Spec == Init /\ [][Next]_vars

\* Every call and every wait completes.
FairSpec == Spec /\ WF_vars(Next)

\* retryWithBackoff called on its own, with arguments from bounded sets.
InitialDelayArgs == {1, 250, DefaultInitialDelay}

InitRetry ==
    /\ Start({"r1"}, "call")
    /\ \E m \in 1..MaxRetriesArg, d \in InitialDelayArgs :
          /\ maxRetries = [r \in Requests |-> m]
          /\ initialDelay = [r \in Requests |-> d]

NextRetry ==
    \E r \in Requests :
        \/ \E o \in Outcomes(RetryResults) : Invoke(r, o)
        \/ WaitDone(r)

SpecRetry == InitRetry /\ [][NextRetry]_vars

\* Two requests are handled at the same time. Every await of the handler is a
\* point where the other request's handler may run.
\* uuidv4() gives each request an id no other request has.
UuidOf == [r \in Requests |-> IF r = "r1" THEN "u1" ELSE "u2"]

PersistOwnId(r) == PersistWith(r, {UuidOf[r]})

\* What generateContent does for either request: a reply that decodes, one
\* that does not, a blocked reply, a rate-limit failure, another failure.
ConcOutcomes ==
    { Resolved(Result(<<"[", "{", KvDialogue, "}", "]">>)),
      Resolved(Result(<<Prose>>)),
      Resolved(BlockedResult),
      Rejected(Err(Marker429)),
      Rejected(Err(<<"5", "0", "3", " Service Unavailable">>)) }

InitConc ==
    /\ Start(Requests, "received")
    /\ maxRetries = [r \in Requests |-> DefaultMaxRetries]
    /\ initialDelay = [r \in Requests |-> DefaultInitialDelay]

NextConc ==
    \E r \in Requests :
        \/ Receive(r)
        \/ PersistOwnId(r)
        \/ \E o \in ConcOutcomes : Invoke(r, o)
        \/ WaitDone(r)
        \/ UpstreamFailed(r)
        \/ Parse(r)
        \/ Cleanup(r)

SpecConc == InitConc /\ [][NextConc]_vars

\* ------------------------------------------------------ the page's handlers

\* file.name as chunks; "." is the character handleDownload looks at.
PageFileNames ==
    { <<"a", ".", "mp4">>, <<"b", ".", "mov">>, <<"take", ".", "2", ".", "mp4">> }

\* The arrays the endpoint decodes from the model's replies to the page's uploads.
PageArrays ==
    { <<"[", "{", KvDialogue, "}", "]">>,
      <<"[", "{", KvDialogue, "}", ",", "{", KvDialogue, ",", KvFilename, "}", "]">> }

\* What POST answers to an upload of the file named n: the entries under that
\* name, or a 500 with a message.
EndpointResponses(n) ==
    { EntriesResponse(OverlayAll(DecodeText(a).val.items, n)) : a \in PageArrays }
    \cup { ErrorResponse(500, m) :
              m \in {MsgParse, MsgProcess, <<"5", "0", "3", " Service Unavailable">>} }

\* fetch rejects: the request failed in transit.
FetchErrors == { Err(<<"Failed to fetch">>) }

FetchOutcomes(n) ==
    { Fulfilled(x) : x \in EndpointResponses(n) } \cup { Refused(e) : e \in FetchErrors }

\* res.ok
Ok(resp) == resp.status \in 200..299

MsgTranscriptionFailed == <<"Transcription failed">>

MsgAnErrorOccurred == <<"An error occurred">>

\* lines 25-31; f = NoFile: the dialog was closed without a selection
HandleFileChange(f) ==
    /\ IF f # NoFile
       THEN /\ file' = f
            /\ error' = NoErrorText
       ELSE UNCHANGED <<file, error>>
    /\ UNCHANGED <<isLoading, uiTimeline, fetches, fetched, download, serverVars>>

\* Variant: the button is not disabled while loading.
TranscribeOfferedWhileLoading == file # NoFile

\* lines 101-105: the button is rendered once a file is selected, and disabled
\* while loading
TranscribeOffered == file # NoFile /\ ~isLoading

\* lines 33-45: the click, up to the await of fetch
HandleTranscribe ==
    /\ TranscribeOffered
    /\ file # NoFile
    /\ Len(fetches) < MaxInFlight
    /\ isLoading' = TRUE
    /\ error' = NoErrorText
    /\ fetches' = Append(fetches, file)
    /\ UNCHANGED <<file, uiTimeline, fetched, download, serverVars>>

\* The try block of handleTranscribe throws: fetch rejected, or line 48.
Failed(o) == o.kind = "rejected" \/ ~Ok(o.response)

\* lines 45-49: what reaches the catch
ThrownBy(o) == IF o.kind = "rejected" THEN o.error ELSE Err(MsgTranscriptionFailed)

\* line 54
PageCatchMessage(e) == IF e.isError THEN e.message ELSE MsgAnErrorOccurred

\* Variant: a failure clears the entries.
TimelineAfterReset(o, old) == IF Failed(o) THEN << >> ELSE o.response.entries

\* lines 51-52: setTimeline(data) is reached only when nothing was thrown
TimelineAfter(o, old) == IF Failed(o) THEN old ELSE o.response.entries

\* lines 53-55
ErrorAfter(o, old) == IF Failed(o) THEN PageCatchMessage(ThrownBy(o)) ELSE old

\* lines 45-57: the i-th request in flight settles with o and the handler runs
\* to its end
Settle(i, o) ==
    /\ i \in 1..Len(fetches)
    /\ fetches' = SubSeq(fetches, 1, i - 1) \o SubSeq(fetches, i + 1, Len(fetches))
    /\ fetched' = o
    /\ uiTimeline' = TimelineAfter(o, uiTimeline)
    /\ error' = ErrorAfter(o, error)
    /\ isLoading' = FALSE
    /\ UNCHANGED <<file, download, serverVars>>

\* new Date().toISOString().replace(/[:.]/g, '-'), at some instant
Timestamp == "2026-01-01T00-00-00-000Z"

RECURSIVE BeforeDot(_)
\* name.split('.')[0]
BeforeDot(name) ==
    IF name = << >> \/ Head(name) = "." THEN << >>
    ELSE <<Head(name)>> \o BeforeDot(Tail(name))

\* line 64: `ASR_${file?.name.split('.')[0]}_${timestamp}.json`
ExportName(f) ==
    <<"ASR_">> \o (IF f = NoFile THEN <<"undefined">> ELSE BeforeDot(f))
               \o <<"_", Timestamp, ".json">>

\* lines 60-75; the blob holds JSON.stringify(timeline)
HandleDownload ==
    /\ uiTimeline # << >>
    /\ download' = [filename |-> ExportName(file), entries |-> uiTimeline]
    /\ UNCHANGED <<file, isLoading, uiTimeline, error, fetches, fetched, serverVars>>

\* The page on its own: the endpoint is what answers its requests.
InitPage ==
    /\ Start({}, "received")
    /\ maxRetries = [r \in Requests |-> DefaultMaxRetries]
    /\ initialDelay = [r \in Requests |-> DefaultInitialDelay]

NextPage ==
    \/ \E f \in PageFileNames \cup {NoFile} : HandleFileChange(f)
    \/ HandleTranscribe
    \/ \E i \in 1..Len(fetches) : \E o \in FetchOutcomes(fetches[i]) : Settle(i, o)
    \/ HandleDownload

SpecPage == InitPage /\ [][NextPage]_vars

\* ------------------------------------------------------------------ claims

\* The failure is one the claims call a rate-limit failure.
IsRateLimit(e) == e.isError /\ Includes(e.message, Marker429)

\* Every invocation so far failed with a rate-limit failure.
AllRateLimited(r) ==
    /\ outcomes[r] # << >>
    /\ \A i \in 1..Len(outcomes[r]) :
          ~outcomes[r][i].ok /\ IsRateLimit(outcomes[r][i].error)

LastOutcome(r) == outcomes[r][Len(outcomes[r])]

\* C1 (as claimed): once the response has been returned, the scratch file of a
\* request that wrote one and went on to the model call is not on disk.
C1_ScratchFileGone ==
    \A r \in Requests :
        (pc[r] = "responded" /\ outcomes[r] # << >>) => filePath[r] \notin disk

\* C2 (as claimed): when every invocation fails with a rate-limit failure, the
\* operation is invoked at most maxAttempts times, maxAttempts being the second
\* argument (3 by default).
C2_AtMostMaxAttempts ==
    \A r \in Requests :
        AllRateLimited(r) => Len(outcomes[r]) <= maxRetries[r]

\* C2 (amended): when every invocation fails with a rate-limit failure, the
\* operation is invoked at most maxRetries + 1 times (4 by default); after the
\* invocation number maxRetries + 1, and not before, retryWithBackoff throws the
\* failure of that last invocation.
C2_AtMostMaxRetriesPlusOne ==
    \A r \in Requests :
        AllRateLimited(r) =>
            /\ Len(outcomes[r]) <= maxRetries[r] + 1
            /\ (settled[r].kind = "thrown") <=> (Len(outcomes[r]) = maxRetries[r] + 1)
            /\ settled[r].kind = "thrown" => settled[r].error = LastOutcome(r).error
            /\ settled[r].kind # "returned"

C2_Witness ==
    \E r \in Requests :
        /\ AllRateLimited(r)
        /\ maxRetries[r] = DefaultMaxRetries
        /\ Len(outcomes[r]) = 4
        /\ settled[r].kind = "thrown"
        /\ outcomes[r][1].error # LastOutcome(r).error

\* C3: a failure whose message holds no 429 marker, on whichever attempt, is
\* thrown on at once: it is the last invocation, no wait follows it, and
\* retryWithBackoff has thrown that very failure.
C3_OtherFailureNotRetried ==
    \A r \in Requests :
        \A i \in 1..Len(outcomes[r]) :
            (~outcomes[r][i].ok /\ ~Includes(outcomes[r][i].error.message, Marker429)) =>
                /\ i = Len(outcomes[r])
                /\ Len(waits[r]) = i - 1
                /\ retries[r] = i - 1
                /\ settled[r] = Thrown(outcomes[r][i].error)

C3_Witness ==
    \E r \in Requests :
        /\ Len(outcomes[r]) = 2
        /\ IsRateLimit(outcomes[r][1].error)
        /\ ~outcomes[r][2].ok
        /\ ~Includes(outcomes[r][2].error.message, Marker429)
        /\ settled[r].kind = "thrown"

\* C4: a success ends the loop (it is the last invocation and its result is what
\* retryWithBackoff returns); the loop does not give up on rate-limit failures
\* before maxAttempts of them, so k < maxAttempts rate-limit failures and a
\* success are exactly k + 1 invocations; and POST, after two rate-limit
\* failures and a success whose reply decodes, has invoked the model 3 times and
\* responds 200.
C4_SuccessAfterRateLimits ==
    \A r \in Requests :
        /\ \A i \in 1..Len(outcomes[r]) :
              outcomes[r][i].ok =>
                  /\ i = Len(outcomes[r])
                  /\ settled[r] = Returned(outcomes[r][i].result)
                  /\ Len(waits[r]) = i - 1
        /\ (AllRateLimited(r) /\ settled[r].kind = "thrown") =>
               Len(outcomes[r]) >= maxRetries[r]
        /\ ( /\ pc[r] = "responded"
             /\ Len(outcomes[r]) >= 3
             /\ IsRateLimit(outcomes[r][1].error)
             /\ IsRateLimit(outcomes[r][2].error)
             /\ outcomes[r][3].ok
             /\ ~outcomes[r][3].result.blocked
             /\ DecodeText(outcomes[r][3].result.text).ok ) =>
               /\ Len(outcomes[r]) = 3
               /\ response[r].status = 200

C4_Witness ==
    \E r \in Requests :
        /\ pc[r] = "responded"
        /\ Len(outcomes[r]) = 3
        /\ IsRateLimit(outcomes[r][1].error)
        /\ IsRateLimit(outcomes[r][2].error)
        /\ outcomes[r][3].ok
        /\ response[r].status = 200
        /\ Len(response[r].entries) = 2

\* C5: the i-th wait of a call (i from 1) lasts initialDelay * 2^(i-1); one wait
\* follows each rate-limit failure that is retried; and with the default
\* arguments a call whose every attempt is rate-limited has waited 1000, 2000
\* and 4000 ms when it throws.
C5_ExponentialDelays ==
    \A r \in Requests :
        /\ \A i \in 1..Len(waits[r]) : waits[r][i] = initialDelay[r] * 2 ^ (i - 1)
        /\ Len(waits[r]) = retries[r]
        /\ ( /\ AllRateLimited(r)
             /\ settled[r].kind = "thrown"
             /\ maxRetries[r] = DefaultMaxRetries
             /\ initialDelay[r] = DefaultInitialDelay ) =>
               waits[r] = <<1000, 2000, 4000>>

C5_Witness ==
    \E r \in Requests :
        /\ AllRateLimited(r)
        /\ settled[r].kind = "thrown"
        /\ waits[r] = <<1000, 2000, 4000>>

\* C6: a request whose form has no video field is answered 400 with
\* {error: "No video file provided"}; it has no scratch file and the model was
\* not called for it.
C6_MissingVideoIs400 ==
    \A r \in Requests :
        video[r].kind = "absent" =>
            /\ pc[r] = "responded"
            /\ response[r] = ErrorResponse(400, MsgNoVideo)
            /\ filePath[r] = NoPath
            /\ outcomes[r] = << >>

C6_Witness ==
    \E r \in Requests :
        /\ video[r].kind = "absent"
        /\ response[r].status = 400

\* C7 (as claimed): when retryWithBackoff has thrown, POST responds 500 with
\* {error: m}, m the message of the failure thrown.
C7_ErrorIsFailureMessage ==
    \A r \in Requests :
        (pc[r] = "responded" /\ settled[r].kind = "thrown") =>
            response[r] = ErrorResponse(500, settled[r].error.message)

\* C7 (amended): when retryWithBackoff has thrown, POST responds 500 with
\* {error: m}, never 200 or entries; m is the message of the failure thrown when
\* that failure is an Error, and "Failed to process video" when it is not.
C7_ErrorIsMessageOrFallback ==
    \A r \in Requests :
        (pc[r] = "responded" /\ settled[r].kind = "thrown") =>
            /\ response[r].status = 500
            /\ response[r].kind = "error"
            /\ response[r].entries = << >>
            /\ settled[r].error.isError => response[r].error = settled[r].error.message
            /\ ~settled[r].error.isError => response[r].error = <<"Failed to process video">>

C7_Witness ==
    \E r \in Requests :
        /\ pc[r] = "responded"
        /\ AllRateLimited(r)
        /\ Len(outcomes[r]) = 4
        /\ response[r].status = 500
        /\ response[r].error = LastOutcome(r).error.message
        /\ response[r].error # outcomes[r][1].error.message

\* The reply text has no match of the pattern, or the match is no valid JSON.
Undecodable(t) ==
    \/ ~JsonMatch(t).found
    \/ ~JsonParse(JsonMatch(t).text).ok

\* C8: when the reply has no bracketed array-of-objects substring, or the
\* matched substring is not valid JSON, POST responds 500 with an error payload
\* and no entries.
C8_ParseFailureIs500 ==
    \A r \in Requests :
        ( /\ pc[r] = "responded"
          /\ settled[r].kind = "returned"
          /\ ~settled[r].result.blocked
          /\ Undecodable(settled[r].result.text) ) =>
            /\ response[r].status = 500
            /\ response[r].kind = "error"
            /\ response[r].error = <<"Failed to parse transcription response">>
            /\ response[r].entries = << >>

C8_Witness ==
    \E r \in Requests :
        /\ pc[r] = "responded"
        /\ settled[r].kind = "returned"
        /\ JsonMatch(settled[r].result.text).found
        /\ ~JsonParse(JsonMatch(settled[r].result.text).text).ok
        /\ response[r].status = 500

\* The fields of a decoded array element as the response may show them.
OwnFields(v) == IF v.kind = "object" THEN v.fields ELSE Spread(v)

\* C9: a 200 response holds one entry per element of the decoded array, in
\* order; each entry's filename is the uploaded file's original name, whatever
\* filename the model supplied; every other decoded field is unchanged and no
\* field is added.
C9_EntriesCarryOriginalName ==
    \A r \in Requests :
        response[r].status = 200 =>
            LET d == DecodeText(settled[r].result.text)
                es == response[r].entries
            IN  /\ d.ok
                /\ response[r].kind = "entries"
                /\ Len(es) = Len(d.val.items)
                /\ \A i \in 1..Len(es) :
                      LET own == OwnFields(d.val.items[i]) IN
                      /\ es[i].kind = "object"
                      /\ DOMAIN es[i].fields = DOMAIN own \cup {"filename"}
                      /\ es[i].fields["filename"] = JStr(video[r].name)
                      /\ \A k \in DOMAIN own \ {"filename"} : es[i].fields[k] = own[k]

C9_Witness ==
    \E r \in Requests :
        /\ response[r].status = 200
        /\ Len(response[r].entries) = 2
        /\ LET items == DecodeText(settled[r].result.text).val.items IN
              /\ "filename" \in DOMAIN items[1].fields
              /\ items[1].fields["filename"] # JStr(video[r].name)
              /\ "dialogue" \in DOMAIN items[1].fields
              /\ items[1] # items[2]

\* C10: every request is answered, once, with status 200, 400 or 500; no failure
\* leaves the handler uncaught.
C10_AlwaysResponds ==
    /\ \A r \in Requests : (pc[r] = "received") ~> (pc[r] = "responded")
    /\ [](\A r \in Requests :
            /\ pc[r] # "uncaught"
            /\ (pc[r] = "responded") <=> (response[r] # NoResponse)
            /\ pc[r] = "responded" => response[r].status \in {200, 400, 500})
    /\ [][\A r \in Requests :
            response[r] # NoResponse => response'[r] = response[r]]_vars

C10_Witness ==
    \E r \in Requests :
        /\ pc[r] = "responded"
        /\ Len(outcomes[r]) = DefaultMaxRetries + 1
        /\ Len(waits[r]) = DefaultMaxRetries
        /\ response[r].status = 500

\* C11: when the call and the parsing succeeded and unlink left the scratch
\* file where it was, POST still responds 200 with one entry per decoded
\* element, each under the uploaded file's name: the response that a
\* successful unlink is followed by.
C11_UnlinkFailureNotSurfaced ==
    \A r \in Requests :
        ( /\ pc[r] = "responded"
          /\ settled[r].kind = "returned"
          /\ ~settled[r].result.blocked
          /\ ~Undecodable(settled[r].result.text)
          /\ filePath[r] \in disk ) =>
            /\ response[r].status = 200
            /\ response[r].kind = "entries"
            /\ response[r].error = << >>
            /\ response[r].entries = timeline[r]
            /\ Len(response[r].entries) =
                  Len(JsonParse(JsonMatch(settled[r].result.text).text).val.items)
            /\ \A i \in 1..Len(response[r].entries) :
                  response[r].entries[i].fields["filename"] = JStr(video[r].name)

C11_Witness ==
    \E r \in Requests :
        /\ pc[r] = "responded"
        /\ settled[r].kind = "returned"
        /\ filePath[r] \in disk
        /\ response[r].status = 200
        /\ Len(response[r].entries) = MaxEntries

\* C15: when the reply is prose, a valid JSON array of objects, and further
\* prose, the entries of the response are those of that first array, whatever
\* the text after it holds: a later "}" followed by "]", or a second array.
C15_DecodesFirstArray ==
    \A r \in Requests :
        ( /\ pc[r] = "responded"
          /\ settled[r].kind = "returned"
          /\ ~settled[r].result.blocked ) =>
            \A w \in Wrappers, a \in ArrayTexts :
                settled[r].result.text = w[1] \o a \o w[2] =>
                    LET items == JsonParse(a).val.items
                        es == response[r].entries
                    IN  /\ response[r].status = 200
                        /\ Len(es) = Len(items)
                        /\ \A i \in 1..Len(es) :
                              \A k \in DOMAIN OwnFields(items[i]) \ {"filename"} :
                                  es[i].fields[k] = OwnFields(items[i])[k]

\* The handler has written its scratch file and has not yet reached the
\* response.
InProgress(r) == pc[r] \in {"call", "wait", "returned", "thrown", "cleanup"}

\* C14: with distinct generated ids, whatever the interleaving and the file
\* names, two requests in progress have different scratch files, and the
\* scratch file of a request in progress is on disk: nobody else has written
\* over it or deleted it.
C14_OwnScratchFileOnly ==
    /\ \A r, s \in Requests :
          (r # s /\ InProgress(r) /\ InProgress(s)) => filePath[r] # filePath[s]
    /\ \A r \in Requests : InProgress(r) => filePath[r] \in disk

\* C12: after handleTranscribe has run to its end on a response that is not
\* 2xx, the error text the page shows is the error message that response
\* carries.
C12_ShowsResponseMessage ==
    ( /\ fetches = << >>
      /\ fetched.kind = "response"
      /\ ~Ok(fetched.response)
      /\ error # NoErrorText ) =>
        error = fetched.response.error

\* C13: the file handed over by handleDownload is named after the source file
\* of the entries it holds: the part between "ASR_" and the timestamp is the
\* base of the filename of every exported entry, whatever was selected since.
C13_ExportNamedAfterSource ==
    download # NoDownload =>
        \A i \in 1..Len(download.entries) :
            download.filename =
                <<"ASR_">> \o BeforeDot(download.entries[i].fields["filename"].str)
                           \o <<"_", Timestamp, ".json">>

\* C16: isLoading is true exactly while a request sent by handleTranscribe is
\* not settled, whatever the earlier requests settled with; while it is true
\* handleTranscribe cannot be started, so at most one request is in flight.
C16_LoadingWhileInFlight ==
    /\ isLoading <=> fetches # << >>
    /\ Len(fetches) <= 1
    /\ isLoading => ~ENABLED HandleTranscribe

C16_Witness ==
    /\ isLoading
    /\ Len(fetches) = 1
    /\ Failed(fetched)
    /\ fetched.kind = "response"
    /\ file # fetches[1]

\* C17: a step in which a request settles with a response that is not 2xx or
\* with a failure in transit leaves the entries held by the page as they were
\* and sets the error text; the entries change only when a request settles
\* with a 2xx response, to the entries of that response.
C17_FailureKeepsEntries ==
    [][ /\ (Len(fetches') < Len(fetches) /\ Failed(fetched')) =>
              /\ uiTimeline' = uiTimeline
              /\ error' # NoErrorText
        /\ uiTimeline' # uiTimeline =>
              /\ Len(fetches') < Len(fetches)
              /\ ~Failed(fetched')
              /\ uiTimeline' = fetched'.response.entries ]_vars

C17_Witness ==
    /\ fetches = << >>
    /\ Failed(fetched)
    /\ error # NoErrorText
    /\ uiTimeline # << >>
    /\ download.entries = uiTimeline

====
